---- MODULE Spec2Model ----
(***************************************************************************)
(* chiadog: the finished-signage-point handler with its condition checker  *)
(* NonSkippedSignagePoints, and the Telegram notifier.                     *)
(*                                                                         *)
(* Timestamps are datetimes, held here as integer milliseconds since an    *)
(* arbitrary origin.  An Optional value is the empty sequence (None) or    *)
(* the one-element sequence holding the value.                             *)
(***************************************************************************)
EXTENDS Integers, Sequences, FiniteSets, TLC

None == <<>>
Some(x) == <<x>>
Val(o) == o[1]

(* ---------------- program constants ---------------- *)
RollOverPoint == 64
SuppressSeconds == 15
ShownModulus == 64
OkCode == 200
DayMs == 86400000
SecondMs == 1000

(* ---------------- bounds of the model ---------------- *)
MaxDays == 1
MaxTicks == 2
TickMs == 7500
MaxLow == 2
MaxOver == 1
MaxBatch == 2
NumCheckers == 2
MaxEvents == 2
MaxCalls == 3
MaxConcMsg == 2

(* ---------------- input domains ---------------- *)
ExampleCounters == {10, 13, 15, 20}
Counters == (0..MaxLow) \cup ((RollOverPoint - 1)..(RollOverPoint + MaxOver)) \cup ExampleCounters
Times == {d * DayMs + k * TickMs : d \in 0..MaxDays, k \in 0..MaxTicks}
Messages == [timestamp : Times, signage_point : Counters]

\* the messages of the handler's batches: a counter and its successor, at times
\* zero, one and two suppression windows apart
HCounters == {1, 2}
HTimes == {0, SuppressSeconds * SecondMs, 2 * SuppressSeconds * SecondMs}
HMessages == [timestamp : HTimes, signage_point : HCounters]
JunkLine == [matches |-> FALSE, timestamp |-> 0, signage_point |-> 0]
LogLines == {JunkLine} \cup [matches : {TRUE}, timestamp : HTimes, signage_point : HCounters]
SeqsUpTo(S, n) == UNION {[1..k -> S] : k \in 0..n}
LogBatches == SeqsUpTo(LogLines, MaxBatch)

\* the messages of the concurrent callers: message k has its own timestamp and
\* its own counter, so a stored pair tells which message each half came from
ConcMessages ==
    {[timestamp |-> k * SuppressSeconds * SecondMs, signage_point |-> k + 1] : k \in 0..MaxConcMsg}
Threads == {"t1", "t2"}

EventTypes == {"USER", "KEEPALIVE"}
EventPriorities == {"LOW", "NORMAL", "HIGH"}
UserEvents == [type : EventTypes, priority : EventPriorities, service : {"HARVESTER"}, message : {"text"}]
ResponseCodes == {OkCode, 500}
FullConfig == {"bot_token", "chat_id"}
Configs == SUBSET FullConfig

\* cond_checkers  FinishedSignagePointHandler._cond_checkers: the checkers' fields
\* op             the operation that ran last: "check", "handle" or "send"
\* callee, pre    the checker the last check call was made on; the checkers as
\*                they were when the last operation started
\* chk_obj, chk_ret   argument and return value of the last check call
\* prev_obj, prev_kind   the message checked by the call before the last one on
\*                the same checker, and how that call ended: "normal" (first
\*                call or normal advance), "suppressed" or "event"; "none" and
\*                None when there was no such call
\* h_logs, returned, calls   argument of the last handle call, the events it
\*                returned and the check calls it made
\* threads        for each of two caller threads of checker 1: the line of check it
\*                is at ("idle" outside a call), the call's obj and its locals
\* overlapped     whether a check call ever started while another was running
\* ncalls         the number of check calls the threads have started
\* config, notifier   the config TelegramNotifier was built from; its token, chat_id
\* n_events, n_codes, n_outcome, n_ret, requests   the last send_events_to_user
\*                call: its argument, the response codes of its requests, whether
\*                it returned or raised, its return value and the requests it made
VARIABLES cond_checkers, op, callee, pre, chk_obj, chk_ret, prev_obj, prev_kind,
          h_logs, returned, calls,
          config, notifier, n_events, n_codes, n_outcome, n_ret, requests,
          threads, overlapped, ncalls

checkerVars == <<cond_checkers, op, callee, pre, chk_obj, chk_ret, prev_obj, prev_kind>>
handlerVars == <<h_logs, returned, calls>>
notifierVars == <<config, notifier>>
sendVars == <<n_events, n_codes, n_outcome, n_ret, requests>>
threadVars == <<threads, overlapped, ncalls>>
vars == <<cond_checkers, op, callee, pre, chk_obj, chk_ret, prev_obj, prev_kind,
          h_logs, returned, calls,
          config, notifier, n_events, n_codes, n_outcome, n_ret, requests,
          threads, overlapped, ncalls>>

(* ---------------- NonSkippedSignagePoints ---------------- *)
NewChecker ==
    [last_signage_point_timestamp |-> None,
     last_signage_point |-> None,
     roll_over_point |-> RollOverPoint]

\* timedelta.seconds: the seconds field of the normalised (days, seconds,
\* microseconds) triple, 0 <= seconds < 86400, days carrying the sign.
seconds(delta) == (delta % DayMs) \div SecondMs

time_diff_seconds(self, obj) ==
    seconds(obj.timestamp - Val(self.last_signage_point_timestamp))

increment_diff_nomod(self, obj) ==
    obj.signage_point - Val(self.last_signage_point)

increment_diff_bothmod(self, obj) ==
    (obj.signage_point % self.roll_over_point)
        - (Val(self.last_signage_point) % self.roll_over_point)

increment_diff_cyclic(self, obj) ==
    (obj.signage_point - Val(self.last_signage_point)) % self.roll_over_point

increment_diff(self, obj) ==
    obj.signage_point - (Val(self.last_signage_point) % self.roll_over_point)

suppressed_short(t) == t < 5

suppressed(t) == t < SuppressSeconds

SkipEvent_reduced(self, obj) ==
    [type |-> "USER", priority |-> "NORMAL", service |-> "FULL_NODE",
     message |-> [last |-> Val(self.last_signage_point) % self.roll_over_point,
                  last_of |-> ShownModulus,
                  current |-> obj.signage_point, current_of |-> ShownModulus]]

SkipEvent(self, obj) ==
    [type |-> "USER", priority |-> "NORMAL", service |-> "FULL_NODE",
     message |-> [last |-> Val(self.last_signage_point), last_of |-> ShownModulus,
                  current |-> obj.signage_point, current_of |-> ShownModulus]]

remember_no_timestamp(self, obj) ==
    [self EXCEPT !.last_signage_point = Some(obj.signage_point)]

remember(self, obj) ==
    [self EXCEPT !.last_signage_point_timestamp = Some(obj.timestamp),
                 !.last_signage_point = Some(obj.signage_point)]

first_check_reduced(self, obj) ==
    [self |-> [self EXCEPT !.last_signage_point_timestamp = Some(obj.timestamp),
                           !.last_signage_point = Some(obj.signage_point % self.roll_over_point)],
     ret |-> None]

first_check_counter_only(self, obj) ==
    [self |-> [self EXCEPT !.last_signage_point = Some(obj.signage_point)],
     ret |-> None]

first_check(self, obj) ==
    [self |-> [self EXCEPT !.last_signage_point_timestamp = Some(obj.timestamp),
                           !.last_signage_point = Some(obj.signage_point)],
     ret |-> None]

primed_check_ignoring(self, obj) ==
    LET t == time_diff_seconds(self, obj)
        inc == increment_diff(self, obj)
    IN  IF (inc <= 0 \/ inc > 1) /\ suppressed(t)
        THEN [self |-> self, ret |-> None]
        ELSE [self |-> remember(self, obj),
              ret |-> IF inc <= 0 \/ inc > 1 THEN Some(SkipEvent(self, obj)) ELSE None]

primed_check(self, obj) ==
    LET t == time_diff_seconds(self, obj)
        inc == increment_diff(self, obj)
        event == IF inc <= 0 \/ inc > 1
                 THEN IF suppressed(t) THEN None ELSE Some(SkipEvent(self, obj))
                 ELSE None
    IN  [self |-> remember(self, obj), ret |-> event]

check(self, obj) ==
    IF self.last_signage_point = None
    THEN first_check(self, obj)
    ELSE primed_check(self, obj)

(* ---------------- FinishedSignagePointHandler ---------------- *)
NewHandlerCheckers == [j \in 1..NumCheckers |-> NewChecker]

\* FinishedSignagePointParser.parse: the matching lines, in order.
RECURSIVE parse(_)
parse(logs) ==
    IF logs = <<>> THEN <<>>
    ELSE LET l == Head(logs)
         IN  (IF l.matches
              THEN <<[timestamp |-> l.timestamp, signage_point |-> l.signage_point]>>
              ELSE <<>>) \o parse(Tail(logs))

\* events.append(event) when the checker returned one; each collected event is
\* kept with the call it came from (message index, checker index).
collect_front(evs, event, m, j) ==
    IF event # None THEN <<[event |-> Val(event), msg |-> m, checker |-> j]>> \o evs ELSE evs

collect(evs, event, m, j) ==
    IF event # None THEN Append(evs, [event |-> Val(event), msg |-> m, checker |-> j]) ELSE evs

RECURSIVE run_checkers(_, _, _, _)
run_checkers(st, m, msg, j) ==
    IF j > Len(st.checkers) THEN st
    ELSE LET r == check(st.checkers[j], msg)
         IN  run_checkers([checkers |-> [st.checkers EXCEPT ![j] = r.self],
                           events |-> collect(st.events, r.ret, m, j),
                           calls |-> Append(st.calls, [msg |-> m, obj |-> msg, checker |-> j, ret |-> r.ret])],
                          m, msg, j + 1)

RECURSIVE run_messages(_, _, _)
run_messages(st, msgs, m) ==
    IF m > Len(msgs) THEN st
    ELSE run_messages(run_checkers(st, m, msgs[m], 1), msgs, m + 1)

handle_with_new_checkers(checkers, logs) ==
    run_messages([checkers |-> [j \in DOMAIN checkers |-> NewChecker],
                  events |-> <<>>, calls |-> <<>>],
                 parse(logs), 1)

handle(checkers, logs) ==
    run_messages([checkers |-> checkers, events |-> <<>>, calls |-> <<>>],
                 parse(logs), 1)

(* ---------------- TelegramNotifier ---------------- *)
TelegramNotifier_init(cfg) ==
    [token |-> IF "bot_token" \in cfg THEN Some("TOKEN") ELSE None,
     chat_id |-> IF "bot_token" \in cfg /\ "chat_id" \in cfg THEN Some("CHAT") ELSE None]

\* the number of events send_events_to_user makes a request for
Deliveries(evs) == Cardinality({i \in DOMAIN evs : evs[i].type = "USER"})

errors_last(errors, code) == code # OkCode

errors_after(errors, code) == errors \/ code # OkCode

\* the marker put in front of the title: the emoji U+1F6A8 or nothing
symbol(priority) == IF priority = "HIGH" THEN "ALERT" ELSE ""

disable_notification_unless_high(priority) == priority # "HIGH"

disable_notification(priority) == priority = "LOW"

request(self, evs, i, code) ==
    [index |-> i,
     symbol |-> symbol(evs[i].priority),
     chat_id |-> Val(self.chat_id),
     text |-> evs[i].message,
     disable_notification |-> disable_notification(evs[i].priority),
     code |-> code]

\* codes[k] is the response code the API gives to the k-th request.
RECURSIVE send_loop_stop_on_error(_, _, _, _, _, _)
send_loop_stop_on_error(self, evs, codes, i, errors, reqs) ==
    IF i > Len(evs) \/ errors
    THEN [outcome |-> "returned", ret |-> Some(errors), requests |-> reqs]
    ELSE IF evs[i].type = "USER"
         THEN IF self.token = None \/ self.chat_id = None
              THEN [outcome |-> "raised", ret |-> None, requests |-> reqs]
              ELSE LET code == codes[Len(reqs) + 1]
                   IN  send_loop_stop_on_error(self, evs, codes, i + 1,
                                               errors_after(errors, code),
                                               Append(reqs, request(self, evs, i, code)))
         ELSE send_loop_stop_on_error(self, evs, codes, i + 1, errors, reqs)

RECURSIVE send_loop(_, _, _, _, _, _)
send_loop(self, evs, codes, i, errors, reqs) ==
    IF i > Len(evs) THEN [outcome |-> "returned", ret |-> Some(errors), requests |-> reqs]
    ELSE IF evs[i].type = "USER"
         THEN IF self.token = None \/ self.chat_id = None
              THEN [outcome |-> "raised", ret |-> None, requests |-> reqs]
              ELSE LET code == codes[Len(reqs) + 1]
                   IN  send_loop(self, evs, codes, i + 1, errors_after(errors, code),
                                 Append(reqs, request(self, evs, i, code)))
         ELSE send_loop(self, evs, codes, i + 1, errors, reqs)

send_events_to_user(self, evs, codes) == send_loop(self, evs, codes, 1, FALSE, <<>>)

(* ---------------- check, statement by statement ---------------- *)
\* Two threads call check on checker 1 with no lock; a step is one statement.
IdleThread ==
    [pc |-> "idle", obj |-> None, time_diff_seconds |-> 0, increment_diff |-> 0,
     event |-> None, ret |-> None]

store_timestamp_once(self, obj) ==
    IF self.last_signage_point_timestamp = None
    THEN [self EXCEPT !.last_signage_point_timestamp = Some(obj.timestamp)]
    ELSE self

store_timestamp(self, obj) ==
    [self EXCEPT !.last_signage_point_timestamp = Some(obj.timestamp)]

store_signage_point(self, obj) ==
    [self EXCEPT !.last_signage_point = Some(obj.signage_point)]

Shared == cond_checkers[1]

Goto(t, label) == threads' = [threads EXCEPT ![t].pc = label]

Local ==
    UNCHANGED <<cond_checkers, overlapped, ncalls, op, callee, pre, chk_obj, chk_ret,
                prev_obj, prev_kind, handlerVars, notifierVars, sendVars>>

Stored(t, checker) ==
    /\ cond_checkers' = [cond_checkers EXCEPT ![1] = checker]
    /\ UNCHANGED <<overlapped, ncalls, op, callee, pre, chk_obj, chk_ret,
                   prev_obj, prev_kind, handlerVars, notifierVars, sendVars>>

Call(t, obj) ==
    /\ threads[t].pc = "idle"
    /\ ncalls < MaxCalls
    /\ ncalls' = ncalls + 1
    /\ overlapped' = (overlapped \/ \E u \in Threads \ {t} : threads[u].pc # "idle")
    /\ threads' = [threads EXCEPT ![t] = [IdleThread EXCEPT !.pc = "l64", !.obj = Some(obj)]]
    /\ UNCHANGED <<cond_checkers, op, callee, pre, chk_obj, chk_ret,
                   prev_obj, prev_kind, handlerVars, notifierVars, sendVars>>

L64(t) ==
    /\ threads[t].pc = "l64"
    /\ Goto(t, IF Shared.last_signage_point = None THEN "l65" ELSE "l69")
    /\ Local

L65(t) ==
    /\ threads[t].pc = "l65"
    /\ Goto(t, "l66")
    /\ Stored(t, store_timestamp(Shared, Val(threads[t].obj)))

L66(t) ==
    /\ threads[t].pc = "l66"
    /\ Goto(t, "l67")
    /\ Stored(t, store_signage_point(Shared, Val(threads[t].obj)))

L67(t) ==
    /\ threads[t].pc = "l67"
    /\ threads' = [threads EXCEPT ![t] = [IdleThread EXCEPT !.ret = None]]
    /\ Local

L69(t) ==
    /\ threads[t].pc = "l69"
    /\ threads' = [threads EXCEPT ![t].pc = "l70", ![t].event = None]
    /\ Local

L70(t) ==
    /\ threads[t].pc = "l70"
    /\ threads' = [threads EXCEPT ![t].pc = "l71",
                     ![t].time_diff_seconds = time_diff_seconds(Shared, Val(threads[t].obj))]
    /\ Local

L71(t) ==
    /\ threads[t].pc = "l71"
    /\ threads' = [threads EXCEPT ![t].pc = "l73",
                     ![t].increment_diff = increment_diff(Shared, Val(threads[t].obj))]
    /\ Local

L73(t) ==
    /\ threads[t].pc = "l73"
    /\ Goto(t, IF threads[t].increment_diff <= 0 \/ threads[t].increment_diff > 1
               THEN "l78" ELSE "l94")
    /\ Local

L78(t) ==
    /\ threads[t].pc = "l78"
    /\ Goto(t, IF suppressed(threads[t].time_diff_seconds) THEN "l79" ELSE "l85")
    /\ Local

\* logging.info(...): no effect on the state
L79(t) ==
    /\ threads[t].pc = "l79"
    /\ Goto(t, "l94")
    /\ Local

\* message = f"...", logging.warning(message), event = Event(..., message=message):
\* the message reads self._last_signage_point as it is now
L85(t) ==
    /\ threads[t].pc = "l85"
    /\ threads' = [threads EXCEPT ![t].pc = "l94",
                     ![t].event = Some(SkipEvent(Shared, Val(threads[t].obj)))]
    /\ Local

L94(t) ==
    /\ threads[t].pc = "l94"
    /\ Goto(t, "l95")
    /\ Stored(t, store_timestamp(Shared, Val(threads[t].obj)))

L95(t) ==
    /\ threads[t].pc = "l95"
    /\ Goto(t, "l96")
    /\ Stored(t, store_signage_point(Shared, Val(threads[t].obj)))

L96(t) ==
    /\ threads[t].pc = "l96"
    /\ threads' = [threads EXCEPT ![t] = [IdleThread EXCEPT !.ret = threads[t].event]]
    /\ Local

CallStep == \E t \in Threads : \E obj \in ConcMessages : Call(t, obj)

FirstCallStep == \E t \in Threads : L64(t) \/ L65(t) \/ L66(t) \/ L67(t)

DecideStep == \E t \in Threads : L69(t) \/ L70(t) \/ L71(t) \/ L73(t) \/ L78(t) \/ L79(t) \/ L85(t)

StoreStep == \E t \in Threads : L94(t) \/ L95(t) \/ L96(t)

(* ---------------- state machine ---------------- *)
Init ==
    /\ cond_checkers = NewHandlerCheckers
    /\ op = "init"
    /\ callee = 0
    /\ pre = NewHandlerCheckers
    /\ chk_obj = None
    /\ chk_ret = None
    /\ prev_obj = None
    /\ prev_kind = "none"
    /\ h_logs = <<>>
    /\ returned = <<>>
    /\ calls = <<>>
    /\ config \in Configs
    /\ notifier = TelegramNotifier_init(config)
    /\ n_events = <<>>
    /\ n_codes = <<>>
    /\ n_outcome = "none"
    /\ n_ret = None
    /\ requests = <<>>
    /\ threads = [t \in Threads |-> IdleThread]
    /\ overlapped = FALSE
    /\ ncalls = 0

\* how the last check call ended, when it was made on checker j
LastKind(j) ==
    IF op # "check" \/ callee # j THEN "none"
    ELSE IF chk_ret # None THEN "event"
    ELSE IF pre[j].last_signage_point = None THEN "normal"
    ELSE IF increment_diff(pre[j], Val(chk_obj)) = 1 THEN "normal"
    ELSE "suppressed"

Check(j, obj) ==
    LET r == check(cond_checkers[j], obj)
    IN  /\ cond_checkers' = [cond_checkers EXCEPT ![j] = r.self]
        /\ prev_obj' = IF op = "check" /\ callee = j THEN chk_obj ELSE None
        /\ prev_kind' = LastKind(j)
        /\ op' = "check"
        /\ callee' = j
        /\ pre' = cond_checkers
        /\ chk_obj' = Some(obj)
        /\ chk_ret' = r.ret
        /\ h_logs' = <<>>
        /\ returned' = <<>>
        /\ calls' = <<>>
        /\ n_events' = <<>>
        /\ n_codes' = <<>>
        /\ n_outcome' = "none"
        /\ n_ret' = None
        /\ requests' = <<>>
        /\ UNCHANGED notifierVars
        /\ UNCHANGED threadVars

Handle(logs) ==
    LET r == handle(cond_checkers, logs)
    IN  /\ cond_checkers' = r.checkers
        /\ op' = "handle"
        /\ callee' = 0
        /\ pre' = cond_checkers
        /\ chk_obj' = None
        /\ chk_ret' = None
        /\ prev_obj' = None
        /\ prev_kind' = "none"
        /\ h_logs' = logs
        /\ returned' = r.events
        /\ calls' = r.calls
        /\ n_events' = <<>>
        /\ n_codes' = <<>>
        /\ n_outcome' = "none"
        /\ n_ret' = None
        /\ requests' = <<>>
        /\ UNCHANGED notifierVars
        /\ UNCHANGED threadVars

SendEvents(evs, codes) ==
    LET r == send_events_to_user(notifier, evs, codes)
    IN  /\ op' = "send"
        /\ callee' = 0
        /\ pre' = cond_checkers
        /\ chk_obj' = None
        /\ chk_ret' = None
        /\ prev_obj' = None
        /\ prev_kind' = "none"
        /\ h_logs' = <<>>
        /\ returned' = <<>>
        /\ calls' = <<>>
        /\ n_events' = evs
        /\ n_codes' = codes
        /\ n_outcome' = r.outcome
        /\ n_ret' = r.ret
        /\ requests' = r.requests
        /\ UNCHANGED <<cond_checkers, config, notifier>>
        /\ UNCHANGED threadVars

CheckStep == \E obj \in Messages : Check(1, obj)

\* a stream whose counters lie in 1..64, each the cyclic successor of the one
\* checked before it
CyclicSuccessor(c) == IF c < RollOverPoint THEN c + 1 ELSE 1

CyclicCheckStep ==
    \E obj \in Messages :
        /\ obj.signage_point \in 1..RollOverPoint
        /\ cond_checkers[1].last_signage_point # None =>
              obj.signage_point = CyclicSuccessor(Val(cond_checkers[1].last_signage_point))
        /\ Check(1, obj)

HandleStep == \E logs \in LogBatches : Handle(logs)

SendStep ==
    \E evs \in SeqsUpTo(UserEvents, MaxEvents) :
        \E codes \in [1..Deliveries(evs) -> ResponseCodes] : SendEvents(evs, codes)

Next == CheckStep

NextCyclic == CyclicCheckStep

NextHandler == HandleStep

NextNotifier == SendStep

NextConcurrent == CallStep \/ FirstCallStep \/ DecideStep \/ StoreStep

InitConfigured == Init /\ config = FullConfig

Spec == InitConfigured /\ [][Next]_vars

SpecCyclic == InitConfigured /\ [][NextCyclic]_vars

SpecHandler == InitConfigured /\ [][NextHandler]_vars

SpecNotifier == Init /\ [][NextNotifier]_vars

SpecConcurrent == InitConfigured /\ [][NextConcurrent]_vars

(* ---------------- the last check call ---------------- *)
Checked == op = "check"
Before == pre[callee]
After == cond_checkers[callee]
Obj == Val(chk_obj)
PrePrimed == Checked /\ Before.last_signage_point # None
ElapsedMs == Obj.timestamp - Val(Before.last_signage_point_timestamp)
CounterStep == Obj.signage_point - (Val(Before.last_signage_point) % 64)
Anomalous == CounterStep # 1
NowLastSeen ==
    /\ After.last_signage_point_timestamp = Some(Obj.timestamp)
    /\ After.last_signage_point = Some(Obj.signage_point)

\* C1: the first check call on a fresh checker returns no event, whatever the
\* message, and leaves the last-seen timestamp and counter equal to the message's.
C1_FirstCheckPrimes ==
    (Checked /\ Before = NewChecker) => (chk_ret = None /\ NowLastSeen)

C1_Witness ==
    /\ Checked
    /\ Before = NewChecker
    /\ Obj.signage_point = RollOverPoint
    /\ Obj.timestamp > 0
    /\ chk_ret = None

\* C2: on a primed checker, a counter step other than +1 (after reducing the
\* last counter mod 64) with at least 15 whole seconds elapsed since the last
\* message, however long the gap, returns an Event.
C2_EventOnLongGap ==
    (PrePrimed /\ Anomalous /\ ElapsedMs \div SecondMs >= 15) => chk_ret # None

\* C3: on a primed checker, a counter step other than +1 with an elapsed time of
\* at least 0 and less than 15 whole seconds returns no event, and the last-seen
\* pair is still updated to the new message.
C3_SuppressedOnShortGap ==
    (PrePrimed /\ Anomalous /\ ElapsedMs >= 0 /\ ElapsedMs \div SecondMs < 15)
        => (chk_ret = None /\ NowLastSeen)

C3_Witness ==
    /\ PrePrimed
    /\ Val(Before.last_signage_point) = 10
    /\ Obj.signage_point = 13
    /\ ElapsedMs > 0
    /\ ElapsedMs \div SecondMs < 15
    /\ chk_ret = None
    /\ After.last_signage_point = Some(13)

\* C4: on a primed checker with last counter c, a message with counter
\* (c mod 64) + 1 returns no event for every elapsed time; in particular 64
\* followed by 1.
C4_NormalAdvance ==
    (PrePrimed /\ Obj.signage_point = (Val(Before.last_signage_point) % 64) + 1)
        => chk_ret = None

C4_Witness ==
    /\ PrePrimed
    /\ Val(Before.last_signage_point) = 64
    /\ Obj.signage_point = 1
    /\ ElapsedMs \div SecondMs >= 15
    /\ chk_ret = None

\* C5: after every check call, whichever branch it took, the last-seen timestamp
\* and counter are those of the message just checked (the raw counter) and the
\* rollover modulus is 64; a checker that is primed stays primed.
PrimedAt(j) ==
    /\ cond_checkers[j].last_signage_point # None
    /\ cond_checkers[j].last_signage_point_timestamp # None

C5_AfterCheck ==
    Checked => (NowLastSeen /\ After.roll_over_point = 64 /\ PrimedAt(callee))

C5_LastSeenFollowsEveryCheck ==
    /\ []C5_AfterCheck
    /\ [][\A j \in 1..NumCheckers : PrimedAt(j) => PrimedAt(j)']_vars

C5_Witness ==
    /\ PrePrimed
    /\ chk_ret # None
    /\ Obj.timestamp # Val(Before.last_signage_point_timestamp)
    /\ NowLastSeen

\* C6: between check calls the last-seen timestamp and the last-seen counter of a
\* checker are both absent or both present, and when present they are the
\* timestamp and counter of one message, the last one checked.
C6_PairTogether ==
    \A j \in 1..NumCheckers :
        LET c == cond_checkers[j]
        IN  /\ (c.last_signage_point_timestamp = None) <=> (c.last_signage_point = None)
            /\ c.last_signage_point # None =>
                  /\ Checked /\ callee = j
                  /\ c.last_signage_point_timestamp = Some(Obj.timestamp)
                  /\ c.last_signage_point = Some(Obj.signage_point)

C6_Witness ==
    /\ Checked
    /\ Before.last_signage_point_timestamp = None
    /\ Before.last_signage_point = None
    /\ After.last_signage_point_timestamp # None
    /\ After.last_signage_point # None

\* C11: in a stream fed to a fresh checker whose counters lie in 1..64, each the
\* cyclic successor of the one before (64 followed by 1), no check call returns
\* an event, whatever the timestamps.
C11_CyclicStreamSilent ==
    Checked => chk_ret = None

C11_Witness ==
    /\ PrePrimed
    /\ Val(Before.last_signage_point) = 63
    /\ Obj.signage_point = 64
    /\ ElapsedMs >= DayMs
    /\ chk_ret = None

\* C12 as claimed: with last counter 63, a message with counter 0 is a normal
\* advance and returns no event for any elapsed time.
C12_WrapToZeroSilent ==
    (PrePrimed /\ Val(Before.last_signage_point) = 63 /\ Obj.signage_point = 0)
        => chk_ret = None

\* C12 as amended: with last counter 63, a message with counter 0 is an anomaly
\* (step -63): check returns an Event exactly when the seconds field of the
\* time difference is at least 15.
C12_WrapToZeroIsAnomaly ==
    (PrePrimed /\ Val(Before.last_signage_point) = 63 /\ Obj.signage_point = 0)
        => (chk_ret # None <=> (ElapsedMs % DayMs) \div SecondMs >= 15)

C12_Witness ==
    /\ PrePrimed
    /\ Val(Before.last_signage_point) = 63
    /\ Obj.signage_point = 0
    /\ ElapsedMs = 2 * TickMs
    /\ chk_ret # None

\* C13: an anomalous counter on a message whose timestamp is earlier than the
\* last-seen timestamp is suppressed: check returns no event.
C13_EarlierTimestampSuppressed ==
    (PrePrimed /\ Anomalous /\ ElapsedMs < 0) => chk_ret = None

\* C14: every Event check returns is of type USER and priority NORMAL, and its
\* message names the last-seen counter as it was before the call, unreduced, as
\* <last>/64 and the message's counter as <current>/64.
C14_EventContent ==
    (Checked /\ chk_ret # None) =>
        /\ Val(chk_ret).type = "USER"
        /\ Val(chk_ret).priority = "NORMAL"
        /\ Val(chk_ret).message.last = Val(Before.last_signage_point)
        /\ Val(chk_ret).message.last_of = 64
        /\ Val(chk_ret).message.current = Obj.signage_point
        /\ Val(chk_ret).message.current_of = 64

C14_Witness ==
    /\ PrePrimed
    /\ chk_ret # None
    /\ Val(Before.last_signage_point) = 65
    /\ Val(chk_ret).message.last = 65
    /\ Val(chk_ret).message.current = 13

(* ---------------- the last handle call ---------------- *)
Handled == op = "handle"
NoLineMatches == \A i \in DOMAIN h_logs : ~h_logs[i].matches
MatchingLines == SelectSeq(h_logs, LAMBDA l : l.matches)
EmittingCalls == SelectSeq(calls, LAMBDA c : c.ret # None)

\* C7: handle feeds every parsed message, in parse order, to every registered
\* checker, in registration order, and returns exactly the events the checkers
\* returned, by message order and within one message by checker order.
C7_HandleOrder ==
    Handled =>
        /\ Len(calls) = Len(MatchingLines) * NumCheckers
        /\ \A k \in DOMAIN calls :
              /\ calls[k].msg = ((k - 1) \div NumCheckers) + 1
              /\ calls[k].checker = ((k - 1) % NumCheckers) + 1
              /\ calls[k].obj.timestamp = MatchingLines[calls[k].msg].timestamp
              /\ calls[k].obj.signage_point = MatchingLines[calls[k].msg].signage_point
        /\ Len(returned) = Len(EmittingCalls)
        /\ \A k \in DOMAIN returned :
              /\ returned[k].event = Val(EmittingCalls[k].ret)
              /\ returned[k].msg = EmittingCalls[k].msg
              /\ returned[k].checker = EmittingCalls[k].checker

C7_Witness ==
    /\ Handled
    /\ Len(MatchingLines) = 2
    /\ Len(returned) = 2 * NumCheckers
    /\ returned[1].event # returned[Len(returned)].event

\* C8: a batch without matching lines makes handle return no events and leaves
\* every checker's state as it was.
C8_EmptyBatch ==
    (Handled /\ NoLineMatches) => (returned = <<>> /\ cond_checkers = pre)

C8_Witness ==
    /\ Handled
    /\ Len(h_logs) >= 1
    /\ NoLineMatches
    /\ \A j \in 1..NumCheckers : pre[j].last_signage_point # None
    /\ returned = <<>>
    /\ cond_checkers = pre

\* C16: what a check call on a primed checker returns is decided by the message
\* checked just before and the message checked now, whatever happened earlier
\* and however the earlier call ended: it is at most one event, and after an
\* anomaly, reported or suppressed, a message whose counter is
\* (previous mod 64) + 1 returns no event.
HasPrev == Checked /\ prev_obj # None
PrevMsg == Val(prev_obj)
DecidedByLastTwo ==
    IF /\ Obj.signage_point - (PrevMsg.signage_point % 64) # 1
       /\ ((Obj.timestamp - PrevMsg.timestamp) % DayMs) \div SecondMs >= 15
    THEN Some([type |-> "USER", priority |-> "NORMAL", service |-> "FULL_NODE",
               message |-> [last |-> PrevMsg.signage_point, last_of |-> 64,
                            current |-> Obj.signage_point, current_of |-> 64]])
    ELSE None

C16_DependsOnLastTwoOnly ==
    HasPrev =>
        /\ chk_ret = DecidedByLastTwo
        /\ Len(chk_ret) <= 1
        /\ (/\ prev_kind \in {"suppressed", "event"}
            /\ Obj.signage_point = (PrevMsg.signage_point % 64) + 1) => chk_ret = None

C16_Witness ==
    /\ HasPrev
    /\ prev_kind = "suppressed"
    /\ Obj.signage_point = (PrevMsg.signage_point % 64) + 1
    /\ (Obj.timestamp - PrevMsg.timestamp) \div SecondMs >= 15
    /\ chk_ret = None

\* C17: check is not safe for concurrent callers: with two calls on one checker
\* interleaved statement by statement, a state between calls is reachable in
\* which the stored timestamp is that of one message and the stored counter
\* that of another; without overlapping calls no such state is reached.
Quiescent == \A t \in Threads : threads[t].pc = "idle"
Torn ==
    /\ Shared.last_signage_point_timestamp # None
    /\ Shared.last_signage_point # None
    /\ \E a, b \in ConcMessages :
          /\ a # b
          /\ Shared.last_signage_point_timestamp = Some(a.timestamp)
          /\ Shared.last_signage_point = Some(b.signage_point)

C17_TornOnlyByOverlap ==
    (Quiescent /\ Torn) => overlapped

C17_Witness ==
    /\ Quiescent
    /\ Torn
    /\ overlapped
    /\ ncalls = 2

\* C15: checker state lives across handle calls: handling a sequence of lines as
\* two batches, split at any point, returns in all the events that handling it
\* as one batch returns, and ends in the same checker state.
EventsOf(evs) == [k \in DOMAIN evs |-> evs[k].event]

C15_SplitBatches ==
    Handled =>
        \A k \in 0..Len(h_logs) :
            LET first == handle(pre, SubSeq(h_logs, 1, k))
                second == handle(first.checkers, SubSeq(h_logs, k + 1, Len(h_logs)))
            IN  /\ second.checkers = cond_checkers
                /\ EventsOf(first.events) \o EventsOf(second.events) = EventsOf(returned)

C15_Witness ==
    /\ Handled
    /\ pre = NewHandlerCheckers
    /\ Len(h_logs) = 2
    /\ h_logs[1].matches
    /\ h_logs[2].matches
    /\ Len(returned) = NumCheckers
    /\ returned[1].msg = 2
    /\ handle(pre, SubSeq(h_logs, 1, 1)).events = <<>>
    /\ Len(handle(handle(pre, SubSeq(h_logs, 1, 1)).checkers, SubSeq(h_logs, 2, 2)).events)
          = NumCheckers

(* ---------------- the last send_events_to_user call ---------------- *)
Sent == op = "send"
UserFacing == {i \in DOMAIN n_events : n_events[i].type = "USER"}

\* C9: send_events_to_user returns true exactly when some attempted delivery
\* got a response code other than 200; false when all succeeded and when no
\* user-facing event was in the list.
C9_ErrorsIffSomeFailure ==
    (Sent /\ n_outcome = "returned") =>
        (Val(n_ret) <=> (\E k \in 1..Cardinality(UserFacing) : n_codes[k] # 200))

C9_Witness ==
    /\ Sent
    /\ n_outcome = "returned"
    /\ Cardinality(UserFacing) = 2
    /\ n_codes[1] # 200
    /\ n_codes[2] = 200
    /\ n_ret = Some(TRUE)

\* C10: a notifier built from a configuration without bot_token or chat_id
\* answers a send_events_to_user call carrying a user-facing event with a
\* boolean, it does not raise; the checkers are left as they were.
C10_MissingConfigGivesStatus ==
    (Sent /\ config # FullConfig /\ UserFacing # {}) =>
        /\ n_outcome = "returned"
        /\ n_ret \in {Some(TRUE), Some(FALSE)}
        /\ cond_checkers = pre

\* C18: send_events_to_user makes exactly one request per USER event, in list
\* order, and none for an event of another type; a failed request (a code other
\* than 200) does not stop the requests for the events after it.
C18_OneRequestPerUserEvent ==
    (Sent /\ n_outcome = "returned") =>
        /\ Len(requests) = Cardinality(UserFacing)
        /\ \A k \in DOMAIN requests :
              /\ requests[k].index \in UserFacing
              /\ requests[k].text = n_events[requests[k].index].message
              /\ requests[k].code = n_codes[k]
        /\ \A k, l \in DOMAIN requests : k < l => requests[k].index < requests[l].index

C18_Witness ==
    /\ Sent
    /\ n_outcome = "returned"
    /\ Len(n_events) = 2
    /\ UserFacing = {1, 2}
    /\ Len(requests) = 2
    /\ requests[1].code # 200
    /\ requests[2].index = 2

\* C19: a request carries the attention marker exactly when its event's priority
\* is HIGH and has disable_notification true exactly when the priority is LOW; a
\* NORMAL event has neither.
C19_MarkerAndSilence ==
    Sent =>
        \A k \in DOMAIN requests :
            LET priority == n_events[requests[k].index].priority
            IN  /\ (requests[k].symbol = "ALERT") <=> (priority = "HIGH")
                /\ requests[k].symbol \in {"ALERT", ""}
                /\ requests[k].disable_notification <=> (priority = "LOW")

C19_Witness ==
    /\ Sent
    /\ Len(requests) = 2
    /\ n_events[requests[1].index].priority = "NORMAL"
    /\ requests[1].symbol = ""
    /\ ~requests[1].disable_notification
    /\ n_events[requests[2].index].priority = "HIGH"
    /\ requests[2].symbol = "ALERT"

====
